---- MODULE Spec2Model ----
(***************************************************************************)
(* A model of api/LDDC/common/data/config.py: the Config store (a dict     *)
(* guarded by one Lock, persisted as JSON), its ConfigSignal observers,    *)
(* the environment overrides and the reconciliation of a persisted file.   *)
(***************************************************************************)
EXTENDS Integers, Sequences, FiniteSets, TLC

(***************************************************************************)
(* Python values.  A value is a record whose field t is the Python type    *)
(* and whose field v is the payload.  A float is counted in halves (v = 6  *)
(* is 3.0, v = 5 is 2.5); float("inf") carries the extra field inf.        *)
(***************************************************************************)
PyBool(b) == [t |-> "bool", v |-> b]
PyInt(n) == [t |-> "int", v |-> n]
PyFloat(h) == [t |-> "float", v |-> h]
PyInf == [t |-> "float", v |-> 0, inf |-> TRUE]
PyStr(s) == [t |-> "str", v |-> s]
PyList(s) == [t |-> "list", v |-> s]
PyTuple(s) == [t |-> "tuple", v |-> s]
PyDict(s) == [t |-> "dict", v |-> s]
\* A value the write cannot encode: json.dump raises TypeError for a set, bytes
\* or a Path, and the utf-8 file raises UnicodeEncodeError for a string with a
\* lone surrogate.  Neither is an OSError.
PyObject == [t |-> "object", v |-> 0]

IsInf(x) == x.t = "float" /\ "inf" \in DOMAIN x

\* isinstance(x, int): bool is a subclass of int in Python.
IsInstanceInt(x) == x.t \in {"int", "bool"}
IsInstanceFloat(x) == x.t = "float"
IsInstanceList(x) == x.t = "list"
IsInstanceTuple(x) == x.t = "tuple"

\* int(x) of a finite float truncates toward zero.
IntOfFloat(x) == PyInt(IF x.v >= 0 THEN x.v \div 2 ELSE -((-x.v) \div 2))
\* float(x) of an int or a bool (float(True) is 1.0).
FloatOfInt(x) == PyFloat(IF x.t = "bool" THEN (IF x.v THEN 2 ELSE 0) ELSE 2 * x.v)
\* tuple(x) of a list: the elements are kept as they are.
TupleOfList(x) == PyTuple(x.v)

(***************************************************************************)
(* JSON documents, as json.dump writes them and json.load reads them.      *)
(***************************************************************************)
JBool(b) == [t |-> "jbool", v |-> b]
JInt(n) == [t |-> "jint", v |-> n]
JReal(h) == [t |-> "jreal", v |-> h]
JInfinity == [t |-> "jreal", v |-> 0, inf |-> TRUE]
JStr(s) == [t |-> "jstr", v |-> s]
JArr(s) == [t |-> "jarr", v |-> s]
JObj(s) == [t |-> "jobj", v |-> s]

RECURSIVE Serialisable(_)
Serialisable(x) ==
    CASE x.t \in {"bool", "int", "float", "str"} -> TRUE
      [] x.t \in {"list", "tuple"} -> \A i \in 1..Len(x.v) : Serialisable(x.v[i])
      [] x.t = "dict" -> \A i \in 1..Len(x.v) : Serialisable(x.v[i].v)
      [] OTHER -> FALSE

RECURSIVE json_dump(_)
json_dump(x) ==
    CASE x.t = "bool" -> JBool(x.v)
      [] x.t = "int" -> JInt(x.v)
      [] x.t = "float" -> IF IsInf(x) THEN JInfinity ELSE JReal(x.v)
      [] x.t = "str" -> JStr(x.v)
      [] x.t \in {"list", "tuple"} -> JArr([i \in 1..Len(x.v) |-> json_dump(x.v[i])])
      [] x.t = "dict" ->
           JObj([i \in 1..Len(x.v) |-> [k |-> x.v[i].k, v |-> json_dump(x.v[i].v)]])

RECURSIVE json_load(_)
json_load(j) ==
    CASE j.t = "jbool" -> PyBool(j.v)
      [] j.t = "jint" -> PyInt(j.v)
      [] j.t = "jreal" -> IF "inf" \in DOMAIN j THEN PyInf ELSE PyFloat(j.v)
      [] j.t = "jstr" -> PyStr(j.v)
      [] j.t = "jarr" -> PyList([i \in 1..Len(j.v) |-> json_load(j.v[i])])
      [] j.t = "jobj" ->
           PyDict([i \in 1..Len(j.v) |-> [k |-> j.v[i].k, v |-> json_load(j.v[i].v)]])

(***************************************************************************)
(* The dict the store is: an insertion-ordered sequence of entries.        *)
(***************************************************************************)
Entry(k, x) == [k |-> k, v |-> x]
KeysOf(m) == {m[i].k : i \in 1..Len(m)}
Has(m, k) == k \in KeysOf(m)
IndexOf(m, k) == CHOOSE i \in 1..Len(m) : m[i].k = k
Get(m, k) == m[IndexOf(m, k)].v

\* A store that leaves a present key as it is (dict.setdefault).
dict_setitem_keep(m, k, x) == IF Has(m, k) THEN m ELSE Append(m, Entry(k, x))

\* dict.__setitem__: a present key keeps its place, a new key goes last.
dict_setitem(m, k, x) ==
    IF Has(m, k) THEN [m EXCEPT ![IndexOf(m, k)].v = x] ELSE Append(m, Entry(k, x))

\* A removal that takes the oldest entry, whatever the key (popitem of a queue).
dict_delitem_first(m, k) == Tail(m)

\* dict.__delitem__ of a present key.
dict_delitem(m, k) ==
    LET i == IndexOf(m, k)
    IN  SubSeq(m, 1, i - 1) \o SubSeq(m, i + 1, Len(m))

Rgb(r, g, b) == PyTuple(<<PyInt(r), PyInt(g), PyInt(b)>>)
StrList(s) == PyList([i \in 1..Len(s) |-> PyStr(s[i])])

\* self.default_cfg as __init__ writes it, before the environment is read.
DefaultSchema ==
    << Entry("lyrics_file_name_fmt", PyStr("%<artist> - %<title> (%<id>)")),
       Entry("default_save_path", PyStr("/tmp/LDDC/lyrics")),
       Entry("multi_search_sources", StrList(<<"QM", "KG", "NE">>)),
       Entry("langs_order", StrList(<<"roma", "orig", "ts">>)),
       Entry("skip_inst_lyrics", PyBool(TRUE)),
       Entry("auto_select", PyBool(TRUE)),
       Entry("add_end_timestamp_line", PyBool(FALSE)),
       Entry("lrc_ms_digit_count", PyInt(3)),
       Entry("last_ref_line_time_sty", PyInt(0)),
       Entry("lrc_tag_info_src", PyInt(0)),
       Entry("translate_source", PyStr("BING")),
       Entry("translate_target_lang", PyStr("SIMPLIFIED_CHINESE")),
       Entry("openai_base_url", PyStr("")),
       Entry("openai_api_key", PyStr("")),
       Entry("openai_model", PyStr("")),
       Entry("language", PyStr("auto")),
       Entry("log_level", PyStr("INFO")),
       Entry("auto_check_update", PyBool(FALSE)),
       Entry("api_timeout", PyInt(30)),
       Entry("cache_enabled", PyBool(TRUE)),
       Entry("cache_ttl", PyInt(3600)),
       Entry("rate_limit_per_minute", PyInt(60)),
       Entry("enable_cors", PyBool(TRUE)),
       Entry("debug_mode", PyBool(FALSE)),
       Entry("desktop_lyrics_played_colors", PyList(<<Rgb(0, 255, 255), Rgb(0, 128, 255)>>)),
       Entry("desktop_lyrics_unplayed_colors", PyList(<<Rgb(255, 0, 0), Rgb(255, 128, 128)>>)),
       Entry("desktop_lyrics_default_langs", StrList(<<"orig", "ts">>)),
       Entry("desktop_lyrics_langs_order", StrList(<<"roma", "orig", "ts">>)),
       Entry("desktop_lyrics_sources", StrList(<<"QM", "KG", "NE">>)),
       Entry("desktop_lyrics_font_family", PyStr("")),
       Entry("desktop_lyrics_refresh_rate", PyInt(-1)),
       Entry("desktop_lyrics_rect", PyTuple(<<>>)),
       Entry("desktop_lyrics_font_size", PyFloat(60)),
       Entry("ID3_version", PyStr("v2.3")),
       Entry("color_scheme", PyStr("auto")) >>

SchemaKeys == KeysOf(DefaultSchema)

(***************************************************************************)
(* The environment.  A variable is unset or holds a string; the strings    *)
(* the model draws from are EnvStrings, and str.lower, int and split/strip *)
(* are tabulated on them.                                                  *)
(***************************************************************************)
Unset == [set |-> FALSE, s |-> ""]
EnvVal(s) == [set |-> TRUE, s |-> s]

EnvStrings == {"", "45", "abc", "TRUE", "yes", "Yes", "1", "no", "DEBUG", "QM, NE"}

\* A comparison that does not fold the case.
str_same(s) == s

str_lower(s) ==
    CASE s = "TRUE" -> "true"
      [] s = "Yes" -> "yes"
      [] s = "DEBUG" -> "debug"
      [] s = "QM, NE" -> "qm, ne"
      [] OTHER -> s

\* int(s): the strings of EnvStrings that are integer literals.
IntParses(s) == s \in {"45", "1"}
IntValue(s) == CASE s = "45" -> 45 [] s = "1" -> 1

\* [x.strip() for x in s.split(",")]
SplitStrip(s) == IF s = "QM, NE" THEN <<"QM", "NE">> ELSE <<s>>

env_mapping ==
    << [var |-> "LDDC_LOG_LEVEL", key |-> "log_level"],
       [var |-> "LDDC_DEFAULT_SOURCES", key |-> "multi_search_sources"],
       [var |-> "LDDC_API_TIMEOUT", key |-> "api_timeout"],
       [var |-> "LDDC_CACHE_ENABLED", key |-> "cache_enabled"],
       [var |-> "LDDC_CACHE_TTL", key |-> "cache_ttl"],
       [var |-> "LDDC_RATE_LIMIT", key |-> "rate_limit_per_minute"],
       [var |-> "LDDC_DEBUG_MODE", key |-> "debug_mode"] >>

EnvVars == {env_mapping[i].var : i \in 1..Len(env_mapping)}

\* One turn of the loop of _update_from_env: variable e applied to the defaults d.
ApplyEnv(d, key, e) ==
    IF ~e.set \/ e.s = "" THEN d
    ELSE IF key \in {"multi_search_sources"} THEN dict_setitem(d, key, StrList(SplitStrip(e.s)))
    ELSE IF key \in {"cache_enabled", "debug_mode", "enable_cors"}
         THEN dict_setitem(d, key, PyBool(str_lower(e.s) \in {"true", "1", "yes"}))
    ELSE IF key \in {"api_timeout", "cache_ttl", "rate_limit_per_minute"}
         THEN (IF IntParses(e.s) THEN dict_setitem(d, key, PyInt(IntValue(e.s))) ELSE d)
    ELSE dict_setitem(d, key, PyStr(e.s))

RECURSIVE EnvLoop(_, _, _)
EnvLoop(d, environ, i) ==
    IF i > Len(env_mapping) THEN d
    ELSE EnvLoop(ApplyEnv(d, env_mapping[i].key, environ[env_mapping[i].var]), environ, i + 1)

\* Config._update_from_env: the defaults after the environment is applied.
update_from_env(environ) == EnvLoop(DefaultSchema, environ, 1)

(***************************************************************************)
(* The persisted file.                                                     *)
(***************************************************************************)
NoDoc == JObj(<<>>)
FileAbsent == [kind |-> "absent", doc |-> NoDoc]
FileUnreadable == [kind |-> "unreadable", doc |-> NoDoc]
FileMalformed == [kind |-> "malformed", doc |-> NoDoc]
FileJson(doc) == [kind |-> "json", doc |-> doc]

MapSerialisable(m) == \A i \in 1..Len(m) : Serialisable(m[i].v)

\* json.dump(dict(self), f) followed by what json.load reads back from it.
DumpMap(m) == JObj([i \in 1..Len(m) |-> [k |-> m[i].k, v |-> json_dump(m[i].v)]])

\* A write that reports success and leaves the file as it was.
WrittenFile_stale(m, f, outcome) == f

\* The file write_config leaves.  open("w") failing leaves the file as it was;
\* json.dump raising part-way leaves a truncated document.
WrittenFile(m, f, outcome) ==
    CASE outcome = "ok" -> FileJson(DumpMap(m))
      [] outcome = "oserror" -> f
      [] outcome = "typeerror" -> FileMalformed

\* The outcomes write_config can have on map m: encoding fails on a value json
\* cannot encode, and the storage may refuse the write.
WriteOutcomes(m) == IF MapSerialisable(m) THEN {"ok", "oserror"} ELSE {"typeerror", "oserror"}

(***************************************************************************)
(* read_config: the merge of the persisted entries into the live map.      *)
(***************************************************************************)
\* One turn of the loop of read_config on entry (key, value): the map after it,
\* and whether the turn raised (KeyError of self[key], OverflowError of int(inf)).
MergeStep(m, key, value) ==
    IF Has(m, key) /\ value.t = Get(m, key).t
      THEN [map |-> dict_setitem(m, key, value), exc |-> FALSE]
    ELSE IF IsInstanceList(value) /\ ~Has(m, key) THEN [map |-> m, exc |-> TRUE]
    ELSE IF IsInstanceList(value) /\ IsInstanceTuple(Get(m, key))
      THEN [map |-> dict_setitem(m, key, TupleOfList(value)), exc |-> FALSE]
    ELSE IF IsInstanceFloat(value) /\ ~Has(m, key) THEN [map |-> m, exc |-> TRUE]
    ELSE IF IsInstanceFloat(value) /\ IsInstanceInt(Get(m, key))
      THEN (IF IsInf(value) THEN [map |-> m, exc |-> TRUE]
            ELSE [map |-> dict_setitem(m, key, IntOfFloat(value)), exc |-> FALSE])
    ELSE IF IsInstanceInt(value) /\ ~Has(m, key) THEN [map |-> m, exc |-> TRUE]
    ELSE IF IsInstanceInt(value) /\ IsInstanceFloat(Get(m, key))
      THEN [map |-> dict_setitem(m, key, FloatOfInt(value)), exc |-> FALSE]
    ELSE IF ~Has(m, key) THEN [map |-> dict_setitem(m, key, value), exc |-> FALSE]
    ELSE [map |-> m, exc |-> FALSE]

RECURSIVE MergeLoop(_, _, _)
MergeLoop(m, items, i) ==
    IF i > Len(items) THEN [map |-> m, exc |-> FALSE]
    ELSE LET r == MergeStep(m, items[i].k, items[i].v)
         IN  IF r.exc THEN r ELSE MergeLoop(r.map, items, i + 1)

\* The try block of read_config on file f: the map it leaves and whether it raised.
TryLoad(m, f) ==
    CASE f.kind = "absent" -> [map |-> m, exc |-> FALSE]
      [] f.kind \in {"unreadable", "malformed"} -> [map |-> m, exc |-> TRUE]
      [] f.kind = "json" ->
           LET cfg == json_load(f.doc)
           IN  IF cfg.t = "dict" THEN MergeLoop(m, cfg.v, 1) ELSE [map |-> m, exc |-> FALSE]

(***************************************************************************)
(* The running program: one Config object per process run, the threads     *)
(* that call it, and the observers connected to its two signals.           *)
(***************************************************************************)
Threads == {"t1", "t2"}
Groups == {"lyrics", "desktop"}
Callbacks == {"cb_ok", "cb_raises"}

\* The callbacks that raise when invoked (emit catches and prints).
Raises(cb) == cb = "cb_raises"

lyrics_keys ==
    {"langs_order", "lrc_ms_digit_count", "add_end_timestamp_line",
     "last_ref_line_time_sty", "lrc_tag_info_src"}

desktop_lyrics_keys ==
    {"desktop_lyrics_font_family", "desktop_lyrics_played_colors",
     "desktop_lyrics_unplayed_colors", "desktop_lyrics_default_langs",
     "desktop_lyrics_refresh_rate", "desktop_lyrics_langs_order"}

\* The branches of __setitem__ with the desktop keys tested first and the
\* languages order taken for one of them.
SignalOf_mixed(key) ==
    IF key \in desktop_lyrics_keys \cup {"langs_order"} THEN "desktop"
    ELSE IF key \in lyrics_keys THEN "lyrics"
    ELSE "none"

\* The signal __setitem__ emits for a key ("none": neither branch is taken).
SignalOf(key) ==
    IF key \in lyrics_keys THEN "lyrics"
    ELSE IF key \in desktop_lyrics_keys THEN "desktop"
    ELSE "none"

\* Bounds of the exploration: the calls, the connects, the process runs and the
\* failing writes of one behaviour, and the entries of an initial file.
MaxCalls == 3
MaxSubs == 2
MaxRuns == 2
MaxFaults == 1
MaxFileLen == 2

\* The (key, value) pairs set is called with: values of the schema shape of
\* their key (a string, a list, a list of tuples, a tuple), two values for one
\* key, and one value json cannot encode.
SetInputs ==
    { Entry("log_level", PyStr("DEBUG")),
      Entry("log_level", PyStr("ERROR")),
      Entry("langs_order", StrList(<<"orig", "ts">>)),
      Entry("desktop_lyrics_played_colors", PyList(<<Rgb(1, 2, 3)>>)),
      Entry("desktop_lyrics_rect", PyTuple(<<PyInt(0), PyInt(0), PyInt(8), PyInt(6)>>)),
      Entry("default_save_path", PyObject) }

GetKeys == {"langs_order"}
DelKeys == {"langs_order"}
CallKeys == {e.k : e \in SetInputs} \cup GetKeys \cup DelKeys

VARIABLES
    environ,      \* os.environ, the mapped variables
    file,         \* config.json
    phase,        \* "down": no Config object yet; "up": __init__ has returned
    default_cfg,  \* self.default_cfg
    live,         \* the dict the Config object is
    lock,         \* self.lock: "None", "free" or the thread that holds it
    callbacks,    \* per signal, ConfigSignal._callbacks
    pc,           \* per thread, its place in the method it runs
    call,         \* per thread, the call it runs and the callbacks connected when it began
    idx,          \* per thread, the position of emit's loop
    ret,          \* per thread, how its last call ended
    got,          \* per thread, the callback invocations its call has made, in order
    wrote,        \* per thread, how the write_config of its call went
    owner,        \* per key, who has called set or del on it in this run
    lastArg,      \* per key, the value of the latest set call on it in this run
    loaded,       \* how the construction of this run went
    lastSet,      \* the latest mutation of the map and whether its write succeeded
    quota,        \* what is left of the bounds: calls, subs, runs, faults
    snap,         \* per thread, the fields its get_web_api_config has read so far
    seen,         \* per thread, the projections the map has had during its get_web_api_config
    step,         \* per thread, the position of the loop of reset
    heard,        \* per notifying key, the value of the latest notification made for it
    io            \* whether a write has failed, and whether a set or del of this run has written

vars ==
    << environ, file, phase, default_cfg, live, lock, callbacks, pc, call, idx, ret,
       got, wrote, owner, lastArg, loaded, lastSet, quota, snap, seen, step, heard, io >>

NoValue == PyInt(0)
NoCall == [op |-> "none", key |-> "", value |-> NoValue, subs |-> [g \in Groups |-> <<>>]]
NoRet == [op |-> "none", how |-> "none", value |-> NoValue]
NotLoaded == [exc |-> FALSE, wrote |-> "none", from |-> FileAbsent]
NoSet == [valid |-> FALSE, key |-> "", value |-> NoValue, wrote |-> FALSE]

NoIo == [failed |-> FALSE, written |-> FALSE]

EnvNone == [x \in EnvVars |-> Unset]

\* The keys __setitem__ emits a signal for.
NotifyKeys == lyrics_keys \cup desktop_lyrics_keys

Down ==
    /\ phase = "down"
    /\ default_cfg = <<>>
    /\ live = <<>>
    /\ lock = "None"
    /\ callbacks = [g \in Groups |-> <<>>]
    /\ pc = [t \in Threads |-> "idle"]
    /\ call = [t \in Threads |-> NoCall]
    /\ idx = [t \in Threads |-> 1]
    /\ ret = [t \in Threads |-> NoRet]
    /\ got = [t \in Threads |-> <<>>]
    /\ wrote = [t \in Threads |-> "none"]
    /\ owner = [k \in CallKeys |-> "nobody"]
    /\ lastArg = [k \in CallKeys |-> NoValue]
    /\ loaded = NotLoaded
    /\ snap = [t \in Threads |-> <<>>]
    /\ seen = [t \in Threads |-> {}]
    /\ step = [t \in Threads |-> 1]
    /\ heard = [k \in NotifyKeys |-> NoValue]

(***************************************************************************)
(* get_web_api_config: the seven fields of the record and the keys they    *)
(* are read from, in the order the dict display evaluates them.            *)
(***************************************************************************)
WebFields ==
    << [field |-> "timeout", key |-> "api_timeout"],
       [field |-> "cache_enabled", key |-> "cache_enabled"],
       [field |-> "cache_ttl", key |-> "cache_ttl"],
       [field |-> "rate_limit", key |-> "rate_limit_per_minute"],
       [field |-> "enable_cors", key |-> "enable_cors"],
       [field |-> "debug", key |-> "debug_mode"],
       [field |-> "default_sources", key |-> "multi_search_sources"] >>

\* The record a list of field values makes.
WebRecord(values) ==
    PyDict([i \in 1..Len(values) |-> Entry(WebFields[i].field, values[i])])

\* The record get_web_api_config would return were it to read map m at one instant.
Projection(m) ==
    WebRecord([i \in 1..Len(WebFields) |->
                  IF Has(m, WebFields[i].key) THEN Get(m, WebFields[i].key) ELSE PyStr("<absent>")])

\* The projections seen by the get_web_api_config calls in progress once the map is m.
Observe(m) ==
    [t \in Threads |->
        IF call[t].op = "web" /\ pc[t] # "idle" THEN seen[t] \cup {Projection(m)} ELSE seen[t]]

(***************************************************************************)
(* Config.__init__: _update_from_env, reset, read_config, lock = Lock().   *)
(* The lock is None throughout, so every self[key] = value is the plain    *)
(* dict store: no write, no signal.                                        *)
(***************************************************************************)
\* reset(): every entry of default_cfg stored into the map.  (The test on n
\* only makes TLC evaluate n before it goes on.)
RECURSIVE ResetLoop(_, _, _)
ResetLoop(m, d, i) ==
    IF i > Len(d) THEN m
    ELSE LET n == dict_setitem(m, d[i].k, d[i].v)
         IN  IF Len(n) > 0 THEN ResetLoop(n, d, i + 1) ELSE n

reset(m, d) == ResetLoop(m, d, 1)

\* Whether a write may fail for the storage's sake in this behaviour.
Outcomes(m) == {o \in WriteOutcomes(m) : o = "oserror" => quota.faults > 0}

Spend(q, outcome) == IF outcome = "oserror" THEN [q EXCEPT !.faults = @ - 1] ELSE q

Construct ==
    /\ phase = "down"
    /\ quota.runs > 0
    /\ LET d == update_from_env(environ)
           r == TryLoad(reset(<<>>, d), file)
       IN  /\ default_cfg' = d
           /\ live' = r.map
           /\ IF r.exc
                THEN \E outcome \in Outcomes(r.map) :
                        /\ file' = WrittenFile(r.map, file, outcome)
                        /\ loaded' = [exc |-> TRUE, wrote |-> outcome, from |-> file]
                        /\ quota' = [Spend(quota, outcome) EXCEPT !.runs = @ - 1]
                        /\ io' = [io EXCEPT !.failed = @ \/ outcome # "ok"]
                ELSE /\ file' = file
                     /\ loaded' = [exc |-> FALSE, wrote |-> "none", from |-> file]
                     /\ quota' = [quota EXCEPT !.runs = @ - 1]
                     /\ io' = io
    /\ phase' = "up"
    /\ lock' = "free"
    /\ UNCHANGED << environ, callbacks, pc, call, idx, ret, got, wrote, owner, lastArg, lastSet,
                    snap, seen, step, heard >>

\* The process ends: the Config object is gone, the file stays.
Exit ==
    /\ phase = "up"
    /\ \A t \in Threads : pc[t] = "idle"
    /\ quota.runs > 0
    /\ phase' = "down"
    /\ default_cfg' = <<>>
    /\ live' = <<>>
    /\ lock' = "None"
    /\ callbacks' = [g \in Groups |-> <<>>]
    /\ call' = [t \in Threads |-> NoCall]
    /\ idx' = [t \in Threads |-> 1]
    /\ ret' = [t \in Threads |-> NoRet]
    /\ got' = [t \in Threads |-> <<>>]
    /\ wrote' = [t \in Threads |-> "none"]
    /\ owner' = [k \in CallKeys |-> "nobody"]
    /\ lastArg' = [k \in CallKeys |-> NoValue]
    /\ loaded' = NotLoaded
    /\ snap' = [t \in Threads |-> <<>>]
    /\ seen' = [t \in Threads |-> {}]
    /\ step' = [t \in Threads |-> 1]
    /\ heard' = [k \in NotifyKeys |-> NoValue]
    /\ io' = [io EXCEPT !.written = FALSE]
    /\ UNCHANGED << environ, file, pc, lastSet, quota >>

\* ConfigSignal.connect.  The observers of a run are connected before its
\* first call begins.
Connect(g, cb) ==
    /\ phase = "up"
    /\ quota.subs > 0
    /\ \A t \in Threads : call[t].op = "none"
    /\ callbacks' = [callbacks EXCEPT ![g] = Append(@, cb)]
    /\ quota' = [quota EXCEPT !.subs = @ - 1]
    /\ UNCHANGED << environ, file, phase, default_cfg, live, lock, pc, call, idx, ret,
                    got, wrote, owner, lastArg, loaded, lastSet,
                    snap, seen, step, heard, io >>

(***************************************************************************)
(* The calls the threads make.                                             *)
(***************************************************************************)
Start(t, op, key, value, first) ==
    /\ phase = "up"
    /\ pc[t] = "idle"
    /\ quota.calls > 0
    /\ quota' = [quota EXCEPT !.calls = @ - 1]
    /\ call' = [call EXCEPT ![t] = [op |-> op, key |-> key, value |-> value, subs |-> callbacks]]
    /\ pc' = [pc EXCEPT ![t] = first]
    /\ ret' = [ret EXCEPT ![t] = NoRet]
    /\ got' = [got EXCEPT ![t] = <<>>]
    /\ wrote' = [wrote EXCEPT ![t] = "none"]
    /\ idx' = [idx EXCEPT ![t] = 1]
    /\ owner' = IF op \notin {"set", "del"} THEN owner
                ELSE [owner EXCEPT ![key] = IF op = "set" /\ @ \in {"nobody", t} THEN t ELSE "shared"]
    /\ lastArg' = IF op = "set" THEN [lastArg EXCEPT ![key] = value] ELSE lastArg
    /\ snap' = [snap EXCEPT ![t] = <<>>]
    /\ seen' = [seen EXCEPT ![t] = IF op = "web" THEN {Projection(live)} ELSE {}]
    /\ step' = [step EXCEPT ![t] = 1]
    /\ UNCHANGED << environ, file, phase, default_cfg, live, lock, callbacks, loaded, lastSet,
                    heard, io >>

\* How a call ends: its outcome is recorded and the thread is idle again.
Finished(t, how, value) ==
    /\ pc' = [pc EXCEPT ![t] = "idle"]
    /\ ret' = [ret EXCEPT ![t] = [op |-> call[t].op, how |-> how, value |-> value]]

\* `with self.lock:` entered
Acquire(t, from, to) ==
    /\ pc[t] = from
    /\ lock = "free"
    /\ lock' = t
    /\ pc' = [pc EXCEPT ![t] = to]
    /\ UNCHANGED << environ, file, phase, default_cfg, live, callbacks, call, idx, ret,
                    got, wrote, owner, lastArg, loaded, lastSet, quota,
                    snap, seen, step, heard, io >>

\* An exception leaves the with block: the lock is released and the call raises.
Unwind(t) ==
    /\ pc[t] \in {"raise_KeyError", "raise_TypeError"}
    /\ lock' = "free"
    /\ Finished(t, IF pc[t] = "raise_KeyError" THEN "KeyError" ELSE "TypeError", NoValue)
    /\ UNCHANGED << environ, file, phase, default_cfg, live, callbacks, call, idx,
                    got, wrote, owner, lastArg, loaded, lastSet, quota,
                    snap, seen, step, heard, io >>

\* write_config without its except clause: every failure leaves the with block.
WriteConfig_uncaught(t, to) ==
    \E outcome \in Outcomes(live) :
        /\ file' = WrittenFile(live, file, outcome)
        /\ wrote' = [wrote EXCEPT ![t] = outcome]
        /\ lastSet' = [lastSet EXCEPT !.wrote = lastSet.valid /\ outcome = "ok"]
        /\ quota' = Spend(quota, outcome)
        /\ io' = [failed |-> io.failed \/ outcome # "ok", written |-> TRUE]
        /\ pc' = [pc EXCEPT ![t] = IF outcome = "ok" THEN to ELSE "raise_TypeError"]

\* write_config, called with the lock held: the file it leaves, and where the
\* caller goes on (an encoding error is not caught and leaves the with block).
WriteConfig(t, to) ==
    \E outcome \in Outcomes(live) :
        /\ file' = WrittenFile(live, file, outcome)
        /\ wrote' = [wrote EXCEPT ![t] = outcome]
        /\ lastSet' = [lastSet EXCEPT !.wrote = lastSet.valid /\ outcome = "ok"]
        /\ quota' = Spend(quota, outcome)
        /\ io' = [failed |-> io.failed \/ outcome # "ok", written |-> TRUE]
        /\ pc' = [pc EXCEPT ![t] = IF outcome = "typeerror" THEN "raise_TypeError" ELSE to]

(* ---- __setitem__ ---- *)
CallSet(t, e) == Start(t, "set", e.k, e.v, "set_lock")

\* A store that goes on without taking the lock.
SetLock_skip(t) ==
    /\ pc[t] = "set_lock"
    /\ pc' = [pc EXCEPT ![t] = "set_store"]
    /\ UNCHANGED << environ, file, phase, default_cfg, live, lock, callbacks, call, idx, ret,
                    got, wrote, owner, lastArg, loaded, lastSet, quota,
                    snap, seen, step, heard, io >>

SetLock(t) == Acquire(t, "set_lock", "set_store")

SetStore(t) ==
    /\ pc[t] = "set_store"
    /\ live' = dict_setitem(live, call[t].key, call[t].value)
    /\ lastSet' = [valid |-> TRUE, key |-> call[t].key, value |-> call[t].value, wrote |-> FALSE]
    /\ pc' = [pc EXCEPT ![t] = "set_write"]
    /\ seen' = Observe(dict_setitem(live, call[t].key, call[t].value))
    /\ UNCHANGED << environ, file, phase, default_cfg, lock, callbacks, call, idx, ret,
                    got, wrote, owner, lastArg, loaded, quota,
                    snap, step, heard, io >>

SetWrite(t) ==
    /\ pc[t] = "set_write"
    /\ WriteConfig(t, "set_unlock")
    /\ UNCHANGED << environ, phase, default_cfg, live, lock, callbacks, call, idx, ret,
                    got, owner, lastArg, loaded,
                    snap, seen, step, heard >>

\* A __setitem__ that emits inside its with block.
SetUnlock_late(t) ==
    /\ pc[t] = "set_unlock"
    /\ pc' = [pc EXCEPT ![t] = "set_emit"]
    /\ UNCHANGED << environ, file, phase, default_cfg, live, lock, callbacks, call, idx, ret,
                    got, wrote, owner, lastArg, loaded, lastSet, quota,
                    snap, seen, step, heard, io >>

SetUnlock(t) ==
    /\ pc[t] = "set_unlock"
    /\ lock' = "free"
    /\ pc' = [pc EXCEPT ![t] = "set_emit"]
    /\ UNCHANGED << environ, file, phase, default_cfg, live, callbacks, call, idx, ret,
                    got, wrote, owner, lastArg, loaded, lastSet, quota,
                    snap, seen, step, heard, io >>

\* The list emit iterates for a key: the _callbacks of its signal.
EmitList(key) == IF SignalOf(key) = "none" THEN <<>> ELSE callbacks[SignalOf(key)]

\* emit without its try: a callback that raises ends the loop and the call.
Emit_uncaught(t) ==
    /\ pc[t] = "set_emit"
    /\ idx[t] <= Len(EmitList(call[t].key))
    /\ EmitList(call[t].key)[idx[t]] \in Callbacks
    /\ got' = [got EXCEPT ![t] =
                  Append(@, [signal |-> SignalOf(call[t].key), pos |-> idx[t],
                             cb |-> EmitList(call[t].key)[idx[t]],
                             key |-> call[t].key, value |-> call[t].value,
                             raised |-> Raises(EmitList(call[t].key)[idx[t]]),
                             locked |-> lock = t])]
    /\ idx' = [idx EXCEPT ![t] = @ + 1]
    /\ heard' = [heard EXCEPT ![call[t].key] = call[t].value]
    /\ IF Raises(EmitList(call[t].key)[idx[t]])
         THEN Finished(t, "Exception", NoValue)
         ELSE UNCHANGED << pc, ret >>
    /\ UNCHANGED << environ, file, phase, default_cfg, live, lock, callbacks, call,
                    wrote, owner, lastArg, loaded, lastSet, quota,
                    snap, seen, step, io >>

\* One turn of emit's loop: the next callback is invoked with (key, value);
\* if it raises, emit catches and goes on.
Emit(t) ==
    /\ pc[t] = "set_emit"
    /\ idx[t] <= Len(EmitList(call[t].key))
    /\ EmitList(call[t].key)[idx[t]] \in Callbacks
    /\ got' = [got EXCEPT ![t] =
                  Append(@, [signal |-> SignalOf(call[t].key), pos |-> idx[t],
                             cb |-> EmitList(call[t].key)[idx[t]],
                             key |-> call[t].key, value |-> call[t].value,
                             raised |-> Raises(EmitList(call[t].key)[idx[t]]),
                             locked |-> lock = t])]
    /\ idx' = [idx EXCEPT ![t] = @ + 1]
    /\ heard' = [heard EXCEPT ![call[t].key] = call[t].value]
    /\ UNCHANGED << environ, file, phase, default_cfg, live, lock, callbacks, pc, call, ret,
                    wrote, owner, lastArg, loaded, lastSet, quota,
                    snap, seen, step, io >>

SetReturn(t) ==
    /\ pc[t] = "set_emit"
    /\ call[t].op = "set"
    /\ idx[t] > Len(EmitList(call[t].key))
    /\ Finished(t, "ok", NoValue)
    /\ UNCHANGED << environ, file, phase, default_cfg, live, lock, callbacks, call, idx,
                    got, wrote, owner, lastArg, loaded, lastSet, quota,
                    snap, seen, step, heard, io >>

(* ---- __getitem__ ---- *)
CallGet(t, k) == Start(t, "get", k, NoValue, "get_lock")

GetLock(t) == Acquire(t, "get_lock", "get_read")

GetRead(t) ==
    /\ pc[t] = "get_read"
    /\ IF Has(live, call[t].key)
         THEN /\ lock' = "free"
              /\ Finished(t, "ok", Get(live, call[t].key))
         ELSE /\ pc' = [pc EXCEPT ![t] = "raise_KeyError"]
              /\ UNCHANGED << lock, ret >>
    /\ UNCHANGED << environ, file, phase, default_cfg, live, callbacks, call, idx,
                    got, wrote, owner, lastArg, loaded, lastSet, quota,
                    snap, seen, step, heard, io >>

(* ---- __delitem__ ---- *)
CallDel(t, k) == Start(t, "del", k, NoValue, "del_lock")

DelLock(t) == Acquire(t, "del_lock", "del_remove")

\* A delete that passes over an absent key (dict.pop(key, None)).
DelRemove_pop(t) ==
    /\ pc[t] = "del_remove"
    /\ live' = IF Has(live, call[t].key) THEN dict_delitem(live, call[t].key) ELSE live
    /\ lastSet' = NoSet
    /\ pc' = [pc EXCEPT ![t] = "del_write"]
    /\ seen' = Observe(IF Has(live, call[t].key) THEN dict_delitem(live, call[t].key) ELSE live)
    /\ UNCHANGED << environ, file, phase, default_cfg, lock, callbacks, call, idx, ret,
                    got, wrote, owner, lastArg, loaded, quota,
                    snap, step, heard, io >>

DelRemove(t) ==
    /\ pc[t] = "del_remove"
    /\ IF Has(live, call[t].key)
         THEN /\ live' = dict_delitem(live, call[t].key)
              /\ lastSet' = NoSet
              /\ seen' = Observe(dict_delitem(live, call[t].key))
              /\ pc' = [pc EXCEPT ![t] = "del_write"]
         ELSE /\ pc' = [pc EXCEPT ![t] = "raise_KeyError"]
              /\ UNCHANGED << live, lastSet, seen >>
    /\ UNCHANGED << environ, file, phase, default_cfg, lock, callbacks, call, idx, ret,
                    got, wrote, owner, lastArg, loaded, quota,
                    snap, step, heard, io >>

DelWrite(t) ==
    /\ pc[t] = "del_write"
    /\ WriteConfig(t, "del_unlock")
    /\ UNCHANGED << environ, phase, default_cfg, live, lock, callbacks, call, idx, ret,
                    got, owner, lastArg, loaded,
                    snap, seen, step, heard >>

DelUnlock(t) ==
    /\ pc[t] = "del_unlock"
    /\ lock' = "free"
    /\ Finished(t, "ok", NoValue)
    /\ UNCHANGED << environ, file, phase, default_cfg, live, callbacks, call, idx,
                    got, wrote, owner, lastArg, loaded, lastSet, quota,
                    snap, seen, step, heard, io >>

(* ---- callbacks that call the store ---- *)
\* A subscriber may itself use the store while emit runs it: cb_gets reads the
\* key it is told of, cb_sets sets a key that belongs to no group.  Both are
\* whole __getitem__ / __setitem__ calls on the emitting thread.
NestedCallbacks == {"cb_gets", "cb_sets"}

CbSetEntry == Entry("log_level", PyStr("DEBUG"))

\* emit invokes the next callback, which enters its call of the store.
EmitCall(t) ==
    /\ pc[t] = "set_emit"
    /\ idx[t] <= Len(EmitList(call[t].key))
    /\ EmitList(call[t].key)[idx[t]] \in NestedCallbacks
    /\ got' = [got EXCEPT ![t] =
                  Append(@, [signal |-> SignalOf(call[t].key), pos |-> idx[t],
                             cb |-> EmitList(call[t].key)[idx[t]],
                             key |-> call[t].key, value |-> call[t].value,
                             raised |-> FALSE,
                             locked |-> lock = t])]
    /\ heard' = [heard EXCEPT ![call[t].key] = call[t].value]
    /\ pc' = [pc EXCEPT ![t] = IF EmitList(call[t].key)[idx[t]] = "cb_gets"
                                 THEN "cb_get_lock" ELSE "cb_set_lock"]
    /\ UNCHANGED << environ, file, phase, default_cfg, live, lock, callbacks, call, idx, ret,
                    wrote, owner, lastArg, loaded, lastSet, quota,
                    snap, seen, step, io >>

CbGetLock(t) == Acquire(t, "cb_get_lock", "cb_get_read")

\* The callback's __getitem__: the value is returned, or KeyError leaves the with
\* block and is caught by emit; either way the lock is released and emit goes on.
CbGetRead(t) ==
    /\ pc[t] = "cb_get_read"
    /\ lock' = "free"
    /\ pc' = [pc EXCEPT ![t] = "set_emit"]
    /\ idx' = [idx EXCEPT ![t] = @ + 1]
    /\ UNCHANGED << environ, file, phase, default_cfg, live, callbacks, call, ret,
                    got, wrote, owner, lastArg, loaded, lastSet, quota,
                    snap, seen, step, heard, io >>

CbSetLock(t) == Acquire(t, "cb_set_lock", "cb_set_store")

CbSetStore(t) ==
    /\ pc[t] = "cb_set_store"
    /\ live' = dict_setitem(live, CbSetEntry.k, CbSetEntry.v)
    /\ lastSet' = [valid |-> TRUE, key |-> CbSetEntry.k, value |-> CbSetEntry.v, wrote |-> FALSE]
    /\ seen' = Observe(dict_setitem(live, CbSetEntry.k, CbSetEntry.v))
    /\ pc' = [pc EXCEPT ![t] = "cb_set_write"]
    /\ UNCHANGED << environ, file, phase, default_cfg, lock, callbacks, call, idx, ret,
                    got, wrote, owner, lastArg, loaded, quota,
                    snap, step, heard, io >>

\* The callback's write_config.  An encoding error leaves the with block and is
\* caught by emit, so every outcome goes on to the release of the lock.
CbSetWrite(t) ==
    /\ pc[t] = "cb_set_write"
    /\ \E outcome \in Outcomes(live) :
          /\ file' = WrittenFile(live, file, outcome)
          /\ lastSet' = [lastSet EXCEPT !.wrote = lastSet.valid /\ outcome = "ok"]
          /\ quota' = Spend(quota, outcome)
          /\ io' = [failed |-> io.failed \/ outcome # "ok", written |-> TRUE]
    /\ pc' = [pc EXCEPT ![t] = "cb_set_unlock"]
    /\ UNCHANGED << environ, phase, default_cfg, live, lock, callbacks, call, idx, ret,
                    got, wrote, owner, lastArg, loaded,
                    snap, seen, step, heard >>

\* The lock is released; the key set has no signal, so the callback returns and
\* emit goes on.
CbSetUnlock(t) ==
    /\ pc[t] = "cb_set_unlock"
    /\ lock' = "free"
    /\ pc' = [pc EXCEPT ![t] = "set_emit"]
    /\ idx' = [idx EXCEPT ![t] = @ + 1]
    /\ UNCHANGED << environ, file, phase, default_cfg, live, callbacks, call, ret,
                    got, wrote, owner, lastArg, loaded, lastSet, quota,
                    snap, seen, step, heard, io >>

(* ---- reset, called on the constructed store ---- *)
\* reset() runs self[key] = value for every entry of default_cfg.  The lock is
\* no longer None, so each of them is a whole __setitem__: lock, store, write,
\* unlock, emit.
CallReset(t) ==
    /\ phase = "up"
    /\ Start(t, "reset", default_cfg[1].k, default_cfg[1].v, "set_lock")

\* The __setitem__ of one entry has returned: the loop takes the next entry, or
\* reset returns.
ResetNext(t) ==
    /\ pc[t] = "set_emit"
    /\ call[t].op = "reset"
    /\ idx[t] > Len(EmitList(call[t].key))
    /\ IF step[t] < Len(default_cfg)
         THEN /\ step' = [step EXCEPT ![t] = @ + 1]
              /\ call' = [call EXCEPT ![t].key = default_cfg[step[t] + 1].k,
                                      ![t].value = default_cfg[step[t] + 1].v]
              /\ idx' = [idx EXCEPT ![t] = 1]
              /\ pc' = [pc EXCEPT ![t] = "set_lock"]
              /\ ret' = ret
         ELSE /\ Finished(t, "ok", NoValue)
              /\ UNCHANGED << step, call, idx >>
    /\ UNCHANGED << environ, file, phase, default_cfg, live, lock, callbacks,
                    got, wrote, owner, lastArg, loaded, lastSet, quota,
                    snap, seen, heard, io >>

(* ---- get_web_api_config ---- *)
\* The call evaluates self[key] for its seven fields in turn; each is a
\* __getitem__ that takes the lock, reads one key and releases the lock.
CallWeb(t) == Start(t, "web", "", NoValue, "web_lock")

WebLock(t) == Acquire(t, "web_lock", "web_read")

WebRead(t) ==
    /\ pc[t] = "web_read"
    /\ LET key == WebFields[Len(snap[t]) + 1].key
           values == Append(snap[t], Get(live, key))
       IN  IF ~Has(live, key)
             THEN /\ pc' = [pc EXCEPT ![t] = "raise_KeyError"]
                  /\ UNCHANGED << lock, ret, snap >>
             ELSE /\ lock' = "free"
                  /\ snap' = [snap EXCEPT ![t] = values]
                  /\ IF Len(values) = Len(WebFields)
                       THEN Finished(t, "ok", WebRecord(values))
                       ELSE /\ pc' = [pc EXCEPT ![t] = "web_lock"]
                            /\ ret' = ret
    /\ UNCHANGED << environ, file, phase, default_cfg, live, callbacks, call, idx,
                    got, wrote, owner, lastArg, loaded, lastSet, quota,
                    seen, step, heard, io >>

(***************************************************************************)
(* Specifications.                                                         *)
(***************************************************************************)
EnvSome ==
    [EnvNone EXCEPT !["LDDC_API_TIMEOUT"] = EnvVal("45"),
                    !["LDDC_LOG_LEVEL"] = EnvVal("DEBUG"),
                    !["LDDC_CACHE_ENABLED"] = EnvVal("no"),
                    !["LDDC_DEFAULT_SOURCES"] = EnvVal("QM, NE"),
                    !["LDDC_CACHE_TTL"] = EnvVal("abc"),
                    !["LDDC_RATE_LIMIT"] = EnvVal(""),
                    !["LDDC_DEBUG_MODE"] = EnvVal("TRUE")]

\* The behaviours explored: many calls of one run; a call or two with observers
\* connected; a call followed by later runs of the process.
Quotas ==
    { [calls |-> MaxCalls, subs |-> 0, runs |-> 1, faults |-> 0],
      [calls |-> 2, subs |-> MaxSubs, runs |-> 1, faults |-> MaxFaults],
      [calls |-> 1, subs |-> 0, runs |-> MaxRuns, faults |-> MaxFaults] }

Init ==
    /\ Down
    /\ file = FileAbsent
    /\ lastSet = NoSet
    /\ io = NoIo
    /\ quota \in Quotas
    /\ environ \in (IF quota.runs > 1 THEN {EnvNone, EnvSome} ELSE {EnvNone})

Next ==
    \/ Construct
    \/ Exit
    \/ \E g \in Groups, cb \in Callbacks : Connect(g, cb)
    \/ \E t \in Threads :
          \/ \E e \in SetInputs : CallSet(t, e)
          \/ SetLock(t) \/ SetStore(t) \/ SetWrite(t) \/ SetUnlock(t) \/ Emit(t) \/ SetReturn(t)
          \/ \E k \in GetKeys : CallGet(t, k)
          \/ GetLock(t) \/ GetRead(t)
          \/ \E k \in DelKeys : CallDel(t, k)
          \/ DelLock(t) \/ DelRemove(t) \/ DelWrite(t) \/ DelUnlock(t)
          \/ Unwind(t)

Spec == Init /\ [][Next]_vars

(***************************************************************************)
(* Construction alone, against every initial file of at most MaxFileLen    *)
(* entries.                                                                *)
(***************************************************************************)
\* One key of each schema shape (str, int, bool, float, list, tuple) and one
\* key the schema does not have.
FileKeys ==
    {"log_level", "api_timeout", "cache_enabled", "desktop_lyrics_font_size",
     "langs_order", "desktop_lyrics_rect", "new_key"}

\* One JSON value of each kind json.load tells apart, and Infinity.
FileValues ==
    { JBool(TRUE), JInt(7), JReal(6), JInfinity, JStr("DEBUG"),
      JArr(<<JStr("orig"), JStr("ts")>>), JObj(<<>>) }

Members == {[k |-> k, v |-> v] : k \in FileKeys, v \in FileValues}

\* The member lists of a JSON object: no key twice.
MemberLists(n) == {s \in [1..n -> Members] : \A i, j \in 1..n : i # j => s[i].k # s[j].k}

LoadFiles ==
    {FileAbsent, FileUnreadable, FileMalformed, FileJson(JArr(<<>>))}
        \cup {FileJson(JObj(s)) : s \in UNION {MemberLists(n) : n \in 0..MaxFileLen}}

InitLoad ==
    /\ Down
    /\ file \in LoadFiles
    /\ lastSet = NoSet
    /\ io = NoIo
    /\ quota = [calls |-> 0, subs |-> 0, runs |-> 1, faults |-> MaxFaults]
    /\ environ \in {EnvNone, EnvSome}

NextLoad == Construct

SpecLoad == InitLoad /\ [][NextLoad]_vars

(***************************************************************************)
(* Construction alone, with no file, against the environments that set at  *)
(* most two of the mapped variables, each to any string of EnvStrings.     *)
(***************************************************************************)
Environments ==
    {[EnvNone EXCEPT ![x] = a, ![y] = b] :
        x \in EnvVars, y \in EnvVars,
        a \in {Unset} \cup {EnvVal(v) : v \in EnvStrings},
        b \in {Unset} \cup {EnvVal(v) : v \in EnvStrings}}

InitEnv ==
    /\ Down
    /\ file = FileAbsent
    /\ lastSet = NoSet
    /\ io = NoIo
    /\ quota = [calls |-> 0, subs |-> 0, runs |-> 1, faults |-> 0]
    /\ environ \in Environments

SpecEnv == InitEnv /\ [][NextLoad]_vars

(***************************************************************************)
(* get_web_api_config beside a thread that sets the keys it reads.         *)
(***************************************************************************)
WebInputs == {Entry("api_timeout", PyInt(45)), Entry("cache_ttl", PyInt(60))}

InitWeb ==
    /\ Down
    /\ file = FileAbsent
    /\ lastSet = NoSet
    /\ io = NoIo
    /\ quota = [calls |-> MaxCalls, subs |-> 0, runs |-> 1, faults |-> 0]
    /\ environ = EnvNone

NextWeb ==
    \/ Construct
    \/ \E t \in Threads :
          \/ CallWeb(t) \/ WebLock(t) \/ WebRead(t)
          \/ \E e \in WebInputs : CallSet(t, e)
          \/ SetLock(t) \/ SetStore(t) \/ SetWrite(t) \/ SetUnlock(t) \/ SetReturn(t)

SpecWeb == InitWeb /\ [][NextWeb]_vars

(***************************************************************************)
(* Two threads that set one key of the lyrics group to different values,   *)
(* with observers connected.                                               *)
(***************************************************************************)
OrderInputs ==
    { Entry("langs_order", StrList(<<"orig", "ts">>)),
      Entry("langs_order", StrList(<<"ts">>)) }

InitOrder ==
    /\ Down
    /\ file = FileAbsent
    /\ lastSet = NoSet
    /\ io = NoIo
    /\ quota = [calls |-> 2, subs |-> MaxSubs, runs |-> 1, faults |-> 0]
    /\ environ = EnvNone

NextOrder ==
    \/ Construct
    \/ \E g \in Groups, cb \in Callbacks : Connect(g, cb)
    \/ \E t \in Threads :
          \/ \E e \in OrderInputs : CallSet(t, e)
          \/ SetLock(t) \/ SetStore(t) \/ SetWrite(t) \/ SetUnlock(t) \/ Emit(t) \/ SetReturn(t)

SpecOrder == InitOrder /\ [][NextOrder]_vars

(***************************************************************************)
(* Every kind of call, with observers that call the store themselves,      *)
(* under a scheduler that lets every thread that can take a step take one. *)
(***************************************************************************)
FairInputs == {Entry("langs_order", StrList(<<"orig", "ts">>))}

InitFair ==
    /\ Down
    /\ file = FileAbsent
    /\ lastSet = NoSet
    /\ io = NoIo
    /\ quota = [calls |-> 2, subs |-> 1, runs |-> 1, faults |-> 0]
    /\ environ = EnvNone

\* The steps thread t takes inside a call it has begun.
ThreadStep(t) ==
    \/ SetLock(t) \/ SetStore(t) \/ SetWrite(t) \/ SetUnlock(t)
    \/ Emit(t) \/ EmitCall(t) \/ SetReturn(t)
    \/ CbGetLock(t) \/ CbGetRead(t)
    \/ CbSetLock(t) \/ CbSetStore(t) \/ CbSetWrite(t) \/ CbSetUnlock(t)
    \/ GetLock(t) \/ GetRead(t)
    \/ DelLock(t) \/ DelRemove(t) \/ DelWrite(t) \/ DelUnlock(t)
    \/ WebLock(t) \/ WebRead(t)
    \/ Unwind(t)

NextFair ==
    \/ Construct
    \/ \E g \in Groups, cb \in Callbacks \cup NestedCallbacks : Connect(g, cb)
    \/ \E t \in Threads :
          \/ \E e \in FairInputs : CallSet(t, e)
          \/ \E k \in GetKeys : CallGet(t, k)
          \/ \E k \in DelKeys : CallDel(t, k)
          \/ CallWeb(t)
          \/ ThreadStep(t)

SpecFair == InitFair /\ [][NextFair]_vars /\ \A t \in Threads : WF_vars(ThreadStep(t))

(***************************************************************************)
(* reset() on the constructed store, beside a thread that sets a key.      *)
(***************************************************************************)
ResetInputs == {Entry("log_level", PyStr("DEBUG"))}

InitReset ==
    /\ Down
    /\ file = FileAbsent
    /\ lastSet = NoSet
    /\ io = NoIo
    /\ quota = [calls |-> 2, subs |-> 1, runs |-> 1, faults |-> 0]
    /\ environ \in {EnvNone, EnvSome}

NextReset ==
    \/ Construct
    \/ \E g \in Groups, cb \in Callbacks : Connect(g, cb)
    \/ \E t \in Threads :
          \/ CallReset(t) \/ ResetNext(t)
          \/ \E e \in ResetInputs : CallSet(t, e)
          \/ SetLock(t) \/ SetStore(t) \/ SetWrite(t) \/ SetUnlock(t) \/ Emit(t) \/ SetReturn(t)

SpecReset == InitReset /\ [][NextReset]_vars

(***************************************************************************)
(* What the claims speak of.                                               *)
(***************************************************************************)
Constructed == phase = "up"
AllIdle == \A t \in Threads : pc[t] = "idle"
\* No call has begun in this run: the map is as __init__ left it.
Fresh == Constructed /\ \A t \in Threads : call[t].op = "none"

\* The persisted object this run was constructed against, as json.load gives it.
LoadedObject == loaded.from.kind = "json" /\ loaded.from.doc.t = "jobj"
PersistedItems == IF LoadedObject THEN json_load(loaded.from.doc).v ELSE <<>>
Persisted(k) == Has(PersistedItems, k)
PersistedValue(k) == Get(PersistedItems, k)

\* The baseline of a key: its default after the environment overrides.
Baseline(k) == Get(default_cfg, k)

\* The shapes the specification tells apart: the Python type of the value.
Shape(x) == x.t

\* Shape compatibility as the specification states it: the same shape, a list
\* for a tuple, a float for an integer or an integer for a float.
Compatible(p, b) ==
    \/ Shape(p) = Shape(b)
    \/ Shape(p) = "list" /\ Shape(b) = "tuple"
    \/ Shape(p) = "float" /\ Shape(b) = "int"
    \/ Shape(p) = "int" /\ Shape(b) = "float"

\* The value the reconcile rule of the specification adopts for a compatible p.
Adopted(p, b) ==
    IF Shape(p) = Shape(b) THEN p
    ELSE IF Shape(p) = "list" THEN PyTuple(p.v)
    ELSE IF Shape(p) = "float" THEN PyInt(p.v \div 2)
    ELSE PyFloat(2 * p.v)

Reconciled(p, b) == IF Compatible(p, b) THEN Adopted(p, b) ELSE b

(***************************************************************************)
(* C4.  Layering precedence at construction: for every schema key, after   *)
(* construction get(k) is the persisted value when the file holds a        *)
(* shape-compatible value for k, otherwise the baseline (the environment   *)
(* override when one is set and parses, otherwise the schema default).     *)
(* The code breaks it: a file member that makes the merge raise leaves the *)
(* members after it unread.                                                *)
(***************************************************************************)
C4_LayeringPrecedence ==
    Fresh =>
        \A k \in SchemaKeys :
            /\ Has(live, k)
            /\ Get(live, k) = IF Persisted(k) /\ Compatible(PersistedValue(k), Baseline(k))
                                THEN Adopted(PersistedValue(k), Baseline(k))
                                ELSE Baseline(k)

(***************************************************************************)
(* C6.  Shape invariant under reconciliation: after construction against   *)
(* any persisted file every schema key holds a value of the shape of its   *)
(* schema default.  The code breaks it: a float persisted for a boolean    *)
(* key is stored as an integer.                                            *)
(***************************************************************************)
C6_ShapePreserved ==
    Fresh => \A k \in SchemaKeys : Has(live, k) /\ Shape(Get(live, k)) = Shape(Get(DefaultSchema, k))

(***************************************************************************)
(* C7.  Reconcile rule for keys present in both the persisted data and the *)
(* live map: exact shape adopted, list adopted as tuple for a tuple key,   *)
(* float/integer coerced, every other mismatch discarded.  Stated for the  *)
(* files all of whose keys are schema keys and whose numbers are finite,   *)
(* where the merge reads every member.  The code breaks it: a boolean      *)
(* persisted for a float key is adopted as 1.0.                            *)
(***************************************************************************)
C7_ReconcileRule ==
    (/\ Fresh
     /\ LoadedObject
     /\ \A i \in 1..Len(PersistedItems) :
           PersistedItems[i].k \in SchemaKeys /\ ~IsInf(PersistedItems[i].v))
        => \A i \in 1..Len(PersistedItems) :
              LET k == PersistedItems[i].k
              IN  Get(live, k) = Reconciled(PersistedItems[i].v, Baseline(k))

(***************************************************************************)
(* C8.  Forward-compatible load: a persisted key absent from the live map  *)
(* is adopted verbatim whatever the shape of its value, and the remaining  *)
(* persisted keys are still reconciled (each as the merge treats it on its *)
(* own).  Stated for the files whose numbers are finite.  The code breaks  *)
(* it: for a list, a number or a boolean under an unknown key the lookup   *)
(* self[key] raises KeyError, which ends the merge.                        *)
(***************************************************************************)
C8_UnknownKeysAdopted ==
    (/\ Fresh
     /\ LoadedObject
     /\ \A i \in 1..Len(PersistedItems) : ~IsInf(PersistedItems[i].v))
        => \A i \in 1..Len(PersistedItems) :
              LET k == PersistedItems[i].k
                  p == PersistedItems[i].v
              IN  /\ Has(live, k)
                  /\ Get(live, k) = IF k \in SchemaKeys
                                      THEN Get(MergeStep(default_cfg, k, p).map, k)
                                      ELSE p

(***************************************************************************)
(* C10.  Load-failure recovery: whenever reading or reconciling the file   *)
(* fails at any point, the whole load attempt is discarded, so the live    *)
(* map is exactly the default+environment baseline, and that baseline is   *)
(* written back.  The code breaks it: the members merged before the        *)
(* failure stay in the map, and that map is what is written.               *)
(***************************************************************************)
C10_LoadFailureDiscardsAll ==
    (Fresh /\ loaded.exc) =>
        /\ live = default_cfg
        /\ loaded.wrote # "none"
        /\ loaded.wrote = "ok" => file = FileJson(DumpMap(default_cfg))

(***************************************************************************)
(* C1.  Round trip: set(k, v) with v of the schema shape of k (a written   *)
(* file), then a fresh construction against that file, yields              *)
(* get(k) = v.  The code breaks it for a list of tuples: json writes the   *)
(* tuples as arrays and read_config adopts the list of lists as it is.     *)
(***************************************************************************)
C1_RoundTrip ==
    (/\ Fresh
     /\ lastSet.valid
     /\ lastSet.wrote
     /\ lastSet.key \in SchemaKeys
     /\ Shape(lastSet.value) = Shape(Get(DefaultSchema, lastSet.key)))
        => Has(live, lastSet.key) /\ Get(live, lastSet.key) = lastSet.value

(***************************************************************************)
(* C2.  No lost updates: when threads set pairwise distinct keys (values   *)
(* json can encode), every set call returns normally and, once all calls   *)
(* have returned, each key holds the last value its owning thread wrote.   *)
(***************************************************************************)
C2_NoLostUpdates ==
    Constructed =>
        /\ \A t \in Threads :
              (ret[t].op = "set" /\ MapSerialisable(live)) => ret[t].how = "ok"
        /\ AllIdle =>
              \A k \in CallKeys :
                  owner[k] \in Threads => Has(live, k) /\ Get(live, k) = lastArg[k]

\* Two threads have set distinct keys, one of them twice, and all have returned.
C2_Witness ==
    /\ Constructed
    /\ AllIdle
    /\ quota.calls = 0
    /\ quota.subs = 0
    /\ owner["log_level"] = "t1"
    /\ owner["langs_order"] = "t2"
    /\ \A k \in CallKeys \ {"log_level", "langs_order"} : owner[k] = "nobody"
    /\ ret["t1"].op = "set"
    /\ ret["t2"].op = "set"
    /\ Get(live, "log_level") = PyStr("ERROR")
    /\ Get(live, "langs_order") = StrList(<<"orig", "ts">>)

(***************************************************************************)
(* C3.  Group-scoped notification: a set(k, v) that has returned has       *)
(* invoked each subscriber connected to a change group when it began       *)
(* exactly once, with (k, v), if k is a member of that group, and not at   *)
(* all otherwise; the members are the five lyrics keys and the six         *)
(* desktop-overlay keys.                                                   *)
(***************************************************************************)
GroupMembers(g) ==
    IF g = "lyrics"
      THEN {"langs_order", "lrc_ms_digit_count", "add_end_timestamp_line",
            "last_ref_line_time_sty", "lrc_tag_info_src"}
      ELSE {"desktop_lyrics_font_family", "desktop_lyrics_played_colors",
            "desktop_lyrics_unplayed_colors", "desktop_lyrics_default_langs",
            "desktop_lyrics_refresh_rate", "desktop_lyrics_langs_order"}

\* The invocations thread t's call has made of the i-th subscriber of group g.
Invocations(t, g, i) == {n \in 1..Len(got[t]) : got[t][n].signal = g /\ got[t][n].pos = i}

C3_GroupScopedNotification ==
    /\ \A k \in SchemaKeys \ CallKeys, g \in Groups : SignalOf(k) = g <=> k \in GroupMembers(g)
    /\ \A t \in Threads :
          (pc[t] = "idle" /\ ret[t].op = "set" /\ ret[t].how = "ok") =>
              \A g \in Groups :
                  \A i \in 1..Len(call[t].subs[g]) :
                      /\ Cardinality(Invocations(t, g, i)) =
                            IF call[t].key \in GroupMembers(g) THEN 1 ELSE 0
                      /\ \A n \in Invocations(t, g, i) :
                            /\ got[t][n].cb = call[t].subs[g][i]
                            /\ got[t][n].key = call[t].key
                            /\ got[t][n].value = call[t].value

\* A set of a lyrics key has returned with a subscriber on each group: the lyrics
\* subscriber was invoked, the desktop one was not.
C3_Witness ==
    \E t \in Threads :
        /\ pc[t] = "idle" /\ ret[t].op = "set" /\ ret[t].how = "ok"
        /\ call[t].key = "langs_order"
        /\ Len(call[t].subs["lyrics"]) = 1
        /\ Len(call[t].subs["desktop"]) = 1
        /\ Len(got[t]) = 1

(***************************************************************************)
(* C5 as claimed.  Idempotent delete: delete(k) on a key that is already   *)
(* absent returns normally.  The code raises KeyError.                     *)
(***************************************************************************)
C5_DeleteAbsentReturns ==
    \A t \in Threads : ret[t].op = "del" => ret[t].how # "KeyError"

(***************************************************************************)
(* C5 as amended.  delete(k) on a key that is absent from the live map     *)
(* raises KeyError; it leaves the live map and the file unchanged,         *)
(* releases the lock and triggers no notification.                         *)
(***************************************************************************)
C5_DeleteAbsentRaises ==
    [][\A t \in Threads :
          /\ (pc[t] = "del_remove" /\ ~Has(live, call[t].key) /\ pc'[t] # pc[t]) =>
                /\ pc'[t] = "raise_KeyError"
                /\ lock' = t
                /\ live' = live /\ file' = file /\ got' = got
          /\ (call[t].op = "del" /\ pc[t] = "raise_KeyError" /\ pc'[t] # pc[t]) =>
                /\ pc'[t] = "idle"
                /\ ret'[t].how = "KeyError"
                /\ lock' = "free"
                /\ live' = live /\ file' = file /\ got'[t] = <<>>
                /\ wrote'[t] = "none"]_vars

\* A delete of an absent key has ended.
C5_Witness ==
    \E t \in Threads : pc[t] = "idle" /\ ret[t].op = "del" /\ ret[t].how = "KeyError"

(***************************************************************************)
(* C9 as claimed.  Whenever the persistence step of set(k, v) fails, for   *)
(* any cause, set returns normally and every subscriber of the key's group *)
(* is invoked.  The code lets an encoding error of json.dump (TypeError)   *)
(* leave __setitem__.                                                      *)
(***************************************************************************)
Notified(t) ==
    \A g \in Groups :
        call[t].key \in GroupMembers(g) =>
            \A i \in 1..Len(call[t].subs[g]) : Cardinality(Invocations(t, g, i)) = 1

C9_AnyWriteFailureTolerated ==
    \A t \in Threads :
        (pc[t] = "idle" /\ ret[t].op = "set" /\ wrote[t] \in {"oserror", "typeerror"}) =>
            ret[t].how = "ok" /\ Notified(t)

(***************************************************************************)
(* C9 as amended.  Whenever the persistence step of set(k, v) fails with   *)
(* an I/O error (IOError/OSError), the live map holds k = v when the lock  *)
(* is released, the lock is released, set returns normally, and every      *)
(* subscriber of the change group containing k is invoked with (k, v).     *)
(***************************************************************************)
C9_IoFailureTolerated ==
    \A t \in Threads :
        (call[t].op = "set" /\ wrote[t] = "oserror") =>
            /\ pc[t] \in {"set_unlock", "set_emit", "idle"}
            /\ pc[t] = "set_unlock" =>
                  lock = t /\ Has(live, call[t].key) /\ Get(live, call[t].key) = call[t].value
            /\ pc[t] \in {"set_emit", "idle"} => lock # t
            /\ pc[t] = "idle" => ret[t].how = "ok" /\ Notified(t)

\* A set of a lyrics key whose write failed has returned, its subscriber invoked.
C9_Witness ==
    \E t \in Threads :
        /\ pc[t] = "idle" /\ ret[t].op = "set" /\ ret[t].how = "ok"
        /\ wrote[t] = "oserror"
        /\ call[t].key \in lyrics_keys
        /\ Len(call[t].subs["lyrics"]) > 0
        /\ Len(got[t]) = Len(call[t].subs["lyrics"])

(***************************************************************************)
(* C11.  Consistent snapshot: the record get_web_api_config returns is the *)
(* projection of one state the live map had at some instant during the     *)
(* call, and the call changes neither the map nor the file.  The code      *)
(* breaks it: each field is read under its own acquisition of the lock, so *)
(* a writer's two sets can fall between two reads.                         *)
(***************************************************************************)
C11_ConsistentSnapshot ==
    \A t \in Threads :
        (pc[t] = "idle" /\ ret[t].op = "web" /\ ret[t].how = "ok") => ret[t].value \in seen[t]

(***************************************************************************)
(* C12.  Subscriber dispatch: the notification of a set invokes every      *)
(* subscriber registered for the key's group exactly once, in registration *)
(* order, even when an earlier subscriber raises; no subscriber's failure  *)
(* reaches the caller of set, which returns normally.                      *)
(***************************************************************************)
\* The subscribers registered for the group of thread t's key when its call began.
Registered(t) ==
    IF \E g \in Groups : call[t].key \in GroupMembers(g)
      THEN call[t].subs[CHOOSE g \in Groups : call[t].key \in GroupMembers(g)]
      ELSE <<>>

C12_SubscriberDispatch ==
    \A t \in Threads :
        call[t].op = "set" =>
            /\ Len(got[t]) <= Len(Registered(t))
            /\ \A n \in 1..Len(got[t]) : got[t][n].cb = Registered(t)[n] /\ got[t][n].pos = n
            /\ (pc[t] = "idle" /\ wrote[t] # "typeerror") =>
                  ret[t].how = "ok" /\ Len(got[t]) = Len(Registered(t))

\* A set has returned normally after its first subscriber raised and its second ran.
C12_Witness ==
    \E t \in Threads :
        /\ pc[t] = "idle" /\ ret[t].op = "set" /\ ret[t].how = "ok"
        /\ Len(Registered(t)) = 2
        /\ Len(got[t]) = 2
        /\ got[t][1].raised
        /\ got[t][2].cb = "cb_ok"

(***************************************************************************)
(* C13.  Ordering of the side effects of set(k, v) after construction: the *)
(* map mutation, then the persistence attempt, both inside one critical    *)
(* section; the lock is released before any subscriber is invoked; every   *)
(* invocation for the set completes before the call returns; no subscriber *)
(* runs while the calling thread holds the lock.                           *)
(***************************************************************************)
C13_SideEffectOrder ==
    \A t \in Threads :
        call[t].op = "set" =>
            /\ pc[t] = "set_lock" => lock # t /\ wrote[t] = "none" /\ got[t] = <<>>
            /\ pc[t] = "set_store" => lock = t /\ wrote[t] = "none" /\ got[t] = <<>>
            /\ pc[t] = "set_write" =>
                  /\ lock = t /\ wrote[t] = "none" /\ got[t] = <<>>
                  /\ Has(live, call[t].key) /\ Get(live, call[t].key) = call[t].value
            /\ pc[t] = "set_unlock" =>
                  /\ lock = t /\ wrote[t] \in {"ok", "oserror"} /\ got[t] = <<>>
                  /\ Has(live, call[t].key) /\ Get(live, call[t].key) = call[t].value
            /\ pc[t] = "set_emit" => lock # t /\ wrote[t] \in {"ok", "oserror"}
            /\ \A n \in 1..Len(got[t]) : ~got[t][n].locked
            /\ (pc[t] = "idle" /\ ret[t].how = "ok") =>
                  lock # t /\ Len(got[t]) = Len(Registered(t))

\* One thread is between two invocations of its notification while the other
\* holds the lock and writes.
C13_Witness ==
    /\ pc["t1"] = "set_emit"
    /\ Len(got["t1"]) = 1
    /\ Len(Registered("t1")) = 2
    /\ pc["t2"] = "set_write"
    /\ lock = "t2"

(***************************************************************************)
(* C14.  reset() restores every schema key to its baseline without         *)
(* persisting: it performs no write to the file, on a constructed store as *)
(* during construction, and once it has returned (no other call running)   *)
(* get(k) is the baseline of every schema key k.  The code breaks it: on   *)
(* a constructed store every store of reset is a __setitem__ that writes   *)
(* the file.                                                               *)
(***************************************************************************)
C14_ResetDoesNotPersist ==
    \A t \in Threads :
        call[t].op = "reset" =>
            /\ wrote[t] = "none"
            /\ file = loaded.from
            /\ (AllIdle /\ ret[t].op = "reset" /\ \A u \in Threads \ {t} : call[u].op = "none") =>
                  \A k \in SchemaKeys : Has(live, k) /\ Get(live, k) = Baseline(k)

(***************************************************************************)
(* C15.  delete(k) on a present key removes k (and nothing else) from the  *)
(* live map and then rewrites the file, which on a successful write holds  *)
(* the map without k, both inside one critical section; it invokes no      *)
(* subscriber, also when k belongs to a change group; and a get(k) that    *)
(* finds k absent fails with KeyError.                                     *)
(***************************************************************************)
C15_DeletePresent ==
    [][\A t \in Threads :
          /\ (pc[t] = "del_remove" /\ Has(live, call[t].key) /\ pc'[t] # pc[t]) =>
                /\ lock = t /\ lock' = t
                /\ pc'[t] = "del_write"
                /\ ~Has(live', call[t].key)
                /\ \A k \in KeysOf(live) \ {call[t].key} :
                      Has(live', k) /\ Get(live', k) = Get(live, k)
                /\ file' = file /\ got' = got
          /\ (pc[t] = "del_write" /\ pc'[t] # pc[t]) =>
                /\ lock = t /\ lock' = t
                /\ live' = live /\ ~Has(live, call[t].key)
                /\ wrote'[t] = "ok" =>
                      /\ file' = FileJson(DumpMap(live))
                      /\ \A i \in 1..Len(file'.doc.v) : file'.doc.v[i].k # call[t].key
                /\ got' = got
          /\ (pc[t] = "del_unlock" /\ pc'[t] # pc[t]) =>
                /\ lock = t /\ lock' = "free"
                /\ pc'[t] = "idle" /\ ret'[t].how = "ok"
                /\ got'[t] = <<>> /\ live' = live /\ file' = file
          /\ (pc[t] = "get_read" /\ ~Has(live, call[t].key) /\ pc'[t] # pc[t]) =>
                pc'[t] = "raise_KeyError"
          /\ (call[t].op = "get" /\ pc[t] = "raise_KeyError" /\ pc'[t] # pc[t]) =>
                pc'[t] = "idle" /\ ret'[t].how = "KeyError" /\ lock' = "free"]_vars

\* A key of the lyrics group has been deleted with a subscriber connected, no
\* subscriber was invoked, the file no longer holds it, and a get of it has failed.
C15_Witness ==
    \E t, u \in Threads :
        /\ pc[t] = "idle" /\ ret[t].op = "del" /\ ret[t].how = "ok"
        /\ call[t].key \in lyrics_keys
        /\ Len(call[t].subs["lyrics"]) > 0
        /\ got[t] = <<>>
        /\ wrote[t] = "ok"
        /\ ~Has(live, call[t].key)
        /\ file.kind = "json"
        /\ \A i \in 1..Len(file.doc.v) : file.doc.v[i].k # call[t].key
        /\ pc[u] = "idle" /\ ret[u].op = "get" /\ ret[u].how = "KeyError"

(***************************************************************************)
(* C16.  Environment overrides: a mapped variable changes the baseline of  *)
(* its key only if it is set and non-empty; an unset or empty variable,    *)
(* and an integer variable whose value is no integer literal, leave the    *)
(* schema default; a boolean variable yields true exactly when its value   *)
(* equals "true", "1" or "yes" without regard to case; construction never  *)
(* fails, and with no file the live map is the baseline.                   *)
(***************************************************************************)
IntegerVars == {"LDDC_API_TIMEOUT", "LDDC_CACHE_TTL", "LDDC_RATE_LIMIT"}
BooleanVars == {"LDDC_CACHE_ENABLED", "LDDC_DEBUG_MODE"}
\* The strings of EnvStrings that are integer literals, with their values.
IntegerLiterals == {<<"45", 45>>, <<"1", 1>>}
\* The strings of EnvStrings that equal "true", "1" or "yes" when case is ignored.
TruthyStrings == {"TRUE", "yes", "Yes", "1"}

C16_EnvOverrides ==
    /\ phase = "down" => KeysOf(update_from_env(environ)) = SchemaKeys
    /\ Fresh =>
          /\ ~loaded.exc
          /\ live = default_cfg
          /\ KeysOf(default_cfg) = SchemaKeys
          /\ \A k \in SchemaKeys \ {env_mapping[i].key : i \in 1..Len(env_mapping)} :
                Baseline(k) = Get(DefaultSchema, k)
          /\ \A i \in 1..Len(env_mapping) :
                LET e == environ[env_mapping[i].var]
                    var == env_mapping[i].var
                    default == Get(DefaultSchema, env_mapping[i].key)
                    base == Baseline(env_mapping[i].key)
                IN  /\ (~e.set \/ e.s = "") => base = default
                    /\ base # default => (e.set /\ e.s # "")
                    /\ (var \in IntegerVars /\ e.set) =>
                          base = IF \E l \in IntegerLiterals : l[1] = e.s
                                   THEN PyInt((CHOOSE l \in IntegerLiterals : l[1] = e.s)[2])
                                   ELSE default
                    /\ (var \in BooleanVars /\ e.set /\ e.s # "") =>
                          base = PyBool(e.s \in TruthyStrings)

\* Constructed with an integer variable that does not parse and a boolean
\* variable in upper case: the first key keeps its default, the second is true.
C16_Witness ==
    /\ Fresh
    /\ environ["LDDC_CACHE_TTL"] = EnvVal("abc")
    /\ Baseline("cache_ttl") = PyInt(3600)
    /\ environ["LDDC_DEBUG_MODE"] = EnvVal("TRUE")
    /\ Baseline("debug_mode") = PyBool(TRUE)

(***************************************************************************)
(* C17.  File tracks map: on a constructed store none of whose writes has  *)
(* failed, in every state in which no thread holds the lock and a set or   *)
(* delete has written, the file is the serialisation of the current live   *)
(* map (same keys, same values); no interleaving of set and delete calls   *)
(* leaves the file holding an older map than the live one.                 *)
(***************************************************************************)
C17_FileTracksMap ==
    (Constructed /\ lock = "free" /\ io.written /\ ~io.failed) =>
        /\ file = FileJson(DumpMap(live))
        /\ Len(file.doc.v) = Len(live)
        /\ \A i \in 1..Len(live) :
              file.doc.v[i].k = live[i].k /\ file.doc.v[i].v = json_dump(live[i].v)

\* Two threads have returned, one from a set and one from a delete, every write
\* succeeded, and the file is the map without the deleted key.
C17_Witness ==
    /\ Constructed /\ AllIdle /\ lock = "free"
    /\ io.written /\ ~io.failed
    /\ \E t, u \in Threads :
          /\ ret[t].op = "set" /\ ret[t].how = "ok"
          /\ ret[u].op = "del" /\ ret[u].how = "ok"
          /\ Get(live, call[t].key) = call[t].value
          /\ ~Has(live, call[u].key)
    /\ file = FileJson(DumpMap(live))

(***************************************************************************)
(* C18.  Notification order matches write order: when two threads set the  *)
(* same change-group key to different values, once both sets have returned *)
(* the last notification made for that key carries the value get(key)      *)
(* returns.  The code breaks it: the notification is made after the lock   *)
(* is released, so the thread that stored first may notify last.           *)
(***************************************************************************)
C18_NotificationOrder ==
    (/\ AllIdle
     /\ \A t \in Threads : ret[t].op = "set" /\ ret[t].how = "ok" /\ Len(got[t]) > 0
     /\ call["t1"].key = call["t2"].key
     /\ call["t1"].value # call["t2"].value)
        => heard[call["t1"].key] = Get(live, call["t1"].key)

(***************************************************************************)
(* C19.  Deadlock freedom with a non-reentrant lock: under fair scheduling *)
(* every get, set, delete and get_web_api_config call eventually returns,  *)
(* also when a subscriber calls get, or set on a key outside its group,    *)
(* during notification, and through the write made while the lock is held; *)
(* no thread tries to acquire the lock while it holds it.                  *)
(***************************************************************************)
LockWaits == {"set_lock", "get_lock", "del_lock", "web_lock", "cb_get_lock", "cb_set_lock"}

C19_EveryCallReturns ==
    /\ [](\A t \in Threads : pc[t] \in LockWaits => lock # t)
    /\ \A t \in Threads : (pc[t] # "idle") ~> (pc[t] = "idle")

\* A subscriber's own get holds the lock during the notification of one thread's
\* set while the other thread waits for the lock.
C19_Witness ==
    \E t, u \in Threads :
        /\ call[t].op = "set" /\ pc[t] = "cb_get_read" /\ lock = t
        /\ pc[u] \in LockWaits

====
